---- MODULE Spec2Model ----
(***************************************************************************)
(* Model of jobspy_v2/storage/csv_backend.py: the CSV storage backend with *)
(* three files (sent emails, scraped jobs, run statistics).                *)
(*                                                                         *)
(* A text value is the sequence of its line segments: <<"a">> is "a",      *)
(* <<"a","b">> is "a\nb" (one embedded line break), <<"">> is "".  A file  *)
(* is the sequence of its physical lines; a line is a sequence of pieces,  *)
(* one per (segment of a) field, a piece carrying cont = TRUE when the     *)
(* quoted field goes on in the next physical line.                         *)
(***************************************************************************)
EXTENDS Integers, Sequences, FiniteSets, TLC

VARIABLES files, last, sentLog, pc, loc, overlap, nAppended

vars == <<files, last, sentLog, pc, loc, overlap, nAppended>>

---------------------------------------------------------------------------
(* Bounds of the model *)

MaxJobRows == 2
MaxBatch == 2
MaxSentRows == 3
MaxStatsRows == 4
MaxTotalRows == 2
MaxOpsPerWriter == 2
MaxConcRows == 3

---------------------------------------------------------------------------
(* Schemas (jobspy_v2/storage/base.py) and paths *)

SENT_EMAIL_COLUMNS == <<"email", "date_sent">>

SCRAPED_JOB_COLUMNS ==
  <<"title", "email_sent", "skip_reason", "email_recipient", "row_number">>

RUN_STATS_COLUMNS == <<"date", "total_scraped">>

sent_path == "sent_emails.csv"
jobs_path == "scraped_jobs.csv"
stats_path == "run_stats.csv"

Paths == {sent_path, jobs_path, stats_path}

Columns(p) ==
  CASE p = sent_path -> SENT_EMAIL_COLUMNS
    [] p = jobs_path -> SCRAPED_JOB_COLUMNS
    [] p = stats_path -> RUN_STATS_COLUMNS

---------------------------------------------------------------------------
(* Text, str() and int() *)

Text(s) == <<s>>

\* Python's None (DictReader's restval for a short row)
NoneVal == <<>>

Digit == <<"0", "1", "2", "3", "4", "5", "6", "7", "8", "9">>

RECURSIVE Str(_)
Str(n) == IF n < 10 THEN Digit[n + 1] ELSE Str(n \div 10) \o Digit[(n % 10) + 1]

MaxInt == 40

\* int(s) for the decimal strings of the model
IntOf(s) == CHOOSE n \in 0..MaxInt : Str(n) = s

IsInt(s) == \E n \in 0..MaxInt : Str(n) = s

---------------------------------------------------------------------------
(* csv.DictWriter / csv.DictReader *)

\* DictWriter._dict_to_list with extrasaction="ignore", restval=""
Cells(cols, rec) ==
  [i \in 1..Len(cols) |->
     IF cols[i] \in DOMAIN rec /\ rec[cols[i]] # NoneVal
       THEN rec[cols[i]] ELSE Text("")]

FieldPieces(v) == [k \in 1..Len(v) |-> [seg |-> v[k], cont |-> k < Len(v)]]

RECURSIVE RowPieces(_)
RowPieces(cells) ==
  IF cells = <<>> THEN <<>>
  ELSE FieldPieces(Head(cells)) \o RowPieces(Tail(cells))

RECURSIVE SplitLines(_, _)
SplitLines(ps, cur) ==
  IF ps = <<>> THEN <<cur>>
  ELSE IF Head(ps).cont
         THEN <<Append(cur, Head(ps))>> \o SplitLines(Tail(ps), <<>>)
         ELSE SplitLines(Tail(ps), Append(cur, Head(ps)))

\* writer.writerow(row): the physical lines one record takes
writerow(cols, rec) == SplitLines(RowPieces(Cells(cols, rec)), <<>>)

RECURSIVE writerows(_, _)
writerows(cols, rows) ==
  IF rows = <<>> THEN <<>>
  ELSE writerow(cols, Head(rows)) \o writerows(cols, Tail(rows))

\* writer.writeheader()
writeheader(cols) == writerow(cols, [c \in {cols[i] : i \in 1..Len(cols)} |-> Text(c)])

RECURSIVE Fields(_, _)
Fields(ps, cur) ==
  IF ps = <<>> THEN (IF cur = <<>> THEN <<>> ELSE <<cur>>)
  ELSE IF Head(ps).cont
         THEN Fields(Tail(ps), Append(cur, Head(ps).seg))
         ELSE <<Append(cur, Head(ps).seg)>> \o Fields(Tail(ps), <<>>)

\* csv.reader: physical lines to rows of fields (a quoted field spans lines)
RECURSIVE ParseRecords(_, _)
ParseRecords(lines, cur) ==
  IF lines = <<>> THEN (IF cur = <<>> THEN <<>> ELSE <<Fields(cur, <<>>)>>)
  ELSE LET l == Head(lines)
           all == cur \o l
       IN IF l # <<>> /\ l[Len(l)].cont
            THEN ParseRecords(Tail(lines), all)
            ELSE (IF all = <<>> THEN <<>> ELSE <<Fields(all, <<>>)>>)
                   \o ParseRecords(Tail(lines), <<>>)

\* list(csv.DictReader(f)): the first row names the keys
DictReader(lines) ==
  LET recs == ParseRecords(lines, <<>>)
  IN IF recs = <<>> THEN <<>>
     ELSE LET hdr == [i \in 1..Len(recs[1]) |-> recs[1][i][1]]
              idx == [c \in {hdr[i] : i \in 1..Len(hdr)} |->
                        CHOOSE i \in 1..Len(hdr) : hdr[i] = c]
              AsDict(row) ==
                [c \in DOMAIN idx |-> IF idx[c] <= Len(row) THEN row[idx[c]] ELSE NoneVal]
          IN [r \in 1..(Len(recs) - 1) |-> AsDict(recs[r + 1])]

---------------------------------------------------------------------------
(* The module-level helpers *)

Absent == [exists |-> FALSE, lines |-> <<>>]

\* sum(1 for _ in f): the number of physical lines
CountLines(f) == Len(f.lines)

\* faulty variant: the header is written without the path.exists() check
ensure_csv_mut(f, cols) == [exists |-> TRUE, lines |-> writeheader(cols)]

ensure_csv(f, cols) ==
  IF f.exists THEN f ELSE [exists |-> TRUE, lines |-> writeheader(cols)]

\* the file is left as ensure_csv leaves it
read_csv(f, cols) == DictReader(ensure_csv(f, cols).lines)

\* faulty variant: start_row without the + 1
append_rows_start_mut(f, cols) == CountLines(ensure_csv(f, cols))

append_rows_start(f, cols) == CountLines(ensure_csv(f, cols)) + 1

\* faulty variant: the file opened with "w" instead of "a"
append_rows_file_mut(f, cols, rows) == [exists |-> TRUE, lines |-> writerows(cols, rows)]

append_rows_file(f, cols, rows) ==
  [ensure_csv(f, cols) EXCEPT !.lines = @ \o writerows(cols, rows)]

\* faulty variant: the rewrite without writer.writeheader()
rewrite_csv_mut(cols, rows) == [exists |-> TRUE, lines |-> writerows(cols, rows)]

\* with path.open("w"): writeheader(); writerows(rows)
rewrite_csv(cols, rows) ==
  [exists |-> TRUE, lines |-> writeheader(cols) \o writerows(cols, rows)]

\* d[k] = v on a dict
SetKey(d, k, v) == [c \in (DOMAIN d) \cup {k} |-> IF c = k THEN v ELSE d[c]]

\* d.get(k, "")
Get(d, k) == IF k \in DOMAIN d THEN d[k] ELSE Text("")

---------------------------------------------------------------------------
(* Inputs *)

JobInputs ==
  { [title |-> Text("a"), email_sent |-> Text("Pending"),
     row_number |-> Text("9"), source |-> Text("x")],
    [title |-> <<"a", "b">>, email_sent |-> Text("Sent")] }

StatusInputs ==
  { <<Text("Sent"), Text(""), Text("x@y")>>,
    <<Text("Pending"), Text("dup"), Text("")>> }

SentInputs ==
  { [email |-> Text("x@y"), date_sent |-> Text("2024-01-02T09:00:00")],
    [email |-> <<"a", "b">>, date_sent |-> Text("2024-01-01"), note |-> Text("n")],
    [date_sent |-> Text("")] }

StatsInputs ==
  { [date |-> Text("2024-01-02"), total_scraped |-> Text("7")],
    [date |-> <<"2024", "01">>, junk |-> Text("j")] }

Today == {"2024-01-01", "2024-01-02"}

TimeSuffixes == {"", "T09:00:00"}

RECURSIVE SeqsUpTo(_, _)
SeqsUpTo(S, n) ==
  IF n = 0 THEN {<<>>}
  ELSE LET shorter == SeqsUpTo(S, n - 1)
       IN shorter \cup {Append(q, x) : q \in shorter, x \in S}

Batches(S) == SeqsUpTo(S, MaxBatch)

NumRows(f) == Len(DictReader(f.lines))

---------------------------------------------------------------------------
(* State after construction: no file exists yet *)

NoCall ==
  [op |-> "init", path |-> "", ret |-> 0, rn |-> 0, recs |-> <<>>,
   prev |-> [op |-> "other", recs |-> <<>>]]

Idle == [w \in {1, 2} |-> "idle"]

NoLocal == [w \in {1, 2} |-> [start |-> 0, rows |-> <<>>, rn |-> 0, ops |-> 0]]

Init ==
  /\ files = [p \in Paths |-> Absent]
  /\ last = NoCall
  /\ sentLog = <<>>
  /\ pc = Idle
  /\ loc = NoLocal
  /\ overlap = FALSE
  /\ nAppended = 0

\* the call just made: its name, the file it is about, its return value, its
\* row_number argument and the records it returned (or numbered); prev
\* remembers whether the call before it was get_pending_jobs, and what that
\* returned
Called(op, path, ret, rn, recs) ==
  [op |-> op, path |-> path, ret |-> ret, rn |-> rn, recs |-> recs,
   prev |-> IF last.op = "get_pending_jobs"
              THEN [op |-> last.op, recs |-> last.recs]
              ELSE [op |-> "other", recs |-> <<>>]]

---------------------------------------------------------------------------
(* CsvBackend, one caller *)

\* _ensure_csv(path, columns) called on its own
ensure_file(p) ==
  /\ files' = [files EXCEPT ![p] = ensure_csv(@, Columns(p))]
  /\ last' = Called("ensure_csv", p, 0, 0, <<>>)
  /\ UNCHANGED <<sentLog, pc, loc, overlap, nAppended>>

\* faulty variant: the next row counted one too far
get_next_row_number_mut(f) == CountLines(ensure_csv(f, SCRAPED_JOB_COLUMNS)) + 2

get_next_row_number(f) == CountLines(ensure_csv(f, SCRAPED_JOB_COLUMNS)) + 1

\* for i, record in enumerate(records): record["row_number"] = str(start_row + i)
number_records(records, start_row) ==
  [i \in 1..Len(records) |->
     SetKey(records[i], "row_number", Text(Str(start_row + (i - 1))))]

add_scraped_jobs(records) ==
  /\ NumRows(files[jobs_path]) + Len(records) <= MaxJobRows
  /\ LET f == files[jobs_path]
         numbered == number_records(records, get_next_row_number(f))
     IN IF records = <<>>
          THEN /\ files' = [files EXCEPT ![jobs_path] = ensure_csv(f, SCRAPED_JOB_COLUMNS)]
               /\ last' = Called("add_scraped_jobs", jobs_path,
                                 CountLines(ensure_csv(f, SCRAPED_JOB_COLUMNS)) + 1,
                                 0, <<>>)
          ELSE /\ files' = [files EXCEPT ![jobs_path] =
                              append_rows_file(f, SCRAPED_JOB_COLUMNS, numbered)]
               /\ last' = Called("add_scraped_jobs", jobs_path,
                                 append_rows_start(f, SCRAPED_JOB_COLUMNS),
                                 0, numbered)
  /\ UNCHANGED <<sentLog, pc, loc, overlap, nAppended>>

next_row_number ==
  /\ files' = [files EXCEPT ![jobs_path] = ensure_csv(@, SCRAPED_JOB_COLUMNS)]
  /\ last' = Called("_get_next_row_number", jobs_path,
                  get_next_row_number(files[jobs_path]), 0, <<>>)
  /\ UNCHANGED <<sentLog, pc, loc, overlap, nAppended>>

\* faulty variant: the bounds check without 0 <=
in_range_mut(data_index, rows) == data_index < Len(rows)

\* 0 <= data_index < len(rows)
in_range(data_index, rows) == 0 <= data_index /\ data_index < Len(rows)

\* rows[i] with i as Python indexes a list (a negative i counts from the end)
PyIndex(rows, i) == IF i >= 0 THEN i + 1 ELSE Len(rows) + i + 1

\* faulty variant: the status written into every row from data_index on
set_status_mut(rows, data_index, email_sent, skip_reason, email_recipient) ==
  [i \in 1..Len(rows) |->
     IF i >= PyIndex(rows, data_index)
       THEN SetKey(SetKey(SetKey(rows[i], "email_sent", email_sent),
                          "skip_reason", skip_reason),
                   "email_recipient", email_recipient)
       ELSE rows[i]]

set_status(rows, data_index, email_sent, skip_reason, email_recipient) ==
  [i \in 1..Len(rows) |->
     IF i = PyIndex(rows, data_index)
       THEN SetKey(SetKey(SetKey(rows[i], "email_sent", email_sent),
                          "skip_reason", skip_reason),
                   "email_recipient", email_recipient)
       ELSE rows[i]]

update_file(f, row_number, email_sent, skip_reason, email_recipient) ==
  LET g == ensure_csv(f, SCRAPED_JOB_COLUMNS)
      rows == read_csv(g, SCRAPED_JOB_COLUMNS)
      data_index == row_number - 2
  IN IF in_range(data_index, rows)
       THEN rewrite_csv(SCRAPED_JOB_COLUMNS,
                        set_status(rows, data_index, email_sent, skip_reason,
                                   email_recipient))
       ELSE g

update_scraped_job_status(row_number, email_sent, skip_reason, email_recipient) ==
  /\ files' = [files EXCEPT ![jobs_path] =
                 update_file(@, row_number, email_sent, skip_reason, email_recipient)]
  /\ last' = Called("update_scraped_job_status", jobs_path, 0, row_number, <<>>)
  /\ UNCHANGED <<sentLog, pc, loc, overlap, nAppended>>

RECURSIVE pending_from(_, _)
pending_from(all_jobs, i) ==
  IF i > Len(all_jobs) THEN <<>>
  ELSE IF Get(all_jobs[i], "email_sent") = Text("Pending")
         THEN <<SetKey(all_jobs[i], "row_number", Text(Str((i - 1) + 2)))>>
                \o pending_from(all_jobs, i + 1)
         ELSE pending_from(all_jobs, i + 1)

\* faulty variant: the pending rows returned with the row_number they store
pending_jobs_mut(f) ==
  LET all_jobs == read_csv(f, SCRAPED_JOB_COLUMNS)
  IN SelectSeq(all_jobs, LAMBDA j : Get(j, "email_sent") = Text("Pending"))

pending_jobs(f) == pending_from(read_csv(f, SCRAPED_JOB_COLUMNS), 1)

get_pending_jobs ==
  /\ files' = [files EXCEPT ![jobs_path] = ensure_csv(@, SCRAPED_JOB_COLUMNS)]
  /\ last' = Called("get_pending_jobs", jobs_path, 0, 0,
                   pending_jobs(files[jobs_path]))
  /\ UNCHANGED <<sentLog, pc, loc, overlap, nAppended>>

JobsNext ==
  \/ \E records \in Batches(JobInputs) : add_scraped_jobs(records)
  \/ \E rn \in 1..(MaxJobRows + 2), st \in StatusInputs :
       update_scraped_job_status(rn, st[1], st[2], st[3])
  \/ get_pending_jobs

Spec == Init /\ [][JobsNext]_vars

---------------------------------------------------------------------------
(* The sent-email file *)

add_sent_email(record) ==
  /\ NumRows(files[sent_path]) < MaxSentRows
  /\ files' = [files EXCEPT ![sent_path] =
                 append_rows_file(@, SENT_EMAIL_COLUMNS, <<record>>)]
  /\ sentLog' = Append(sentLog, record)
  /\ last' = Called("add_sent_email", sent_path, 0, 0, <<>>)
  /\ UNCHANGED <<pc, loc, overlap, nAppended>>

get_sent_emails ==
  /\ files' = [files EXCEPT ![sent_path] = ensure_csv(@, SENT_EMAIL_COLUMNS)]
  /\ last' = Called("get_sent_emails", sent_path, 0, 0,
                    read_csv(files[sent_path], SENT_EMAIL_COLUMNS))
  /\ UNCHANGED <<sentLog, pc, loc, overlap, nAppended>>

\* date_sent and date_sent.startswith(today_str), today_str without line break
sent_today(record, today_str) ==
  LET date_sent == Get(record, "date_sent")
  IN /\ date_sent # NoneVal
     /\ date_sent # Text("")
     /\ \E x \in TimeSuffixes : date_sent[1] = today_str \o x

today_count(f, today_str) ==
  LET all_emails == read_csv(f, SENT_EMAIL_COLUMNS)
  IN Cardinality({i \in 1..Len(all_emails) : sent_today(all_emails[i], today_str)})

get_today_sent_emails_count(today_str) ==
  /\ files' = [files EXCEPT ![sent_path] = ensure_csv(@, SENT_EMAIL_COLUMNS)]
  /\ last' = Called("get_today_sent_emails_count", sent_path,
                    today_count(files[sent_path], today_str), 0, <<>>)
  /\ UNCHANGED <<sentLog, pc, loc, overlap, nAppended>>

SentNext ==
  \/ \E record \in SentInputs : add_sent_email(record)
  \/ get_sent_emails
  \/ \E today_str \in Today : get_today_sent_emails_count(today_str)
  \/ ensure_file(sent_path)

SpecSent == Init /\ [][SentNext]_vars

---------------------------------------------------------------------------
(* The run-statistics file, and _append_rows called on it *)

append_rows(p, rows) ==
  /\ NumRows(files[p]) + Len(rows) <= MaxStatsRows
  /\ files' = [files EXCEPT ![p] = append_rows_file(@, Columns(p), rows)]
  /\ last' = Called("_append_rows", p, append_rows_start(files[p], Columns(p)), 0, <<>>)
  /\ UNCHANGED <<sentLog, pc, loc, overlap, nAppended>>

add_run_stats(stats) ==
  /\ NumRows(files[stats_path]) < MaxStatsRows
  /\ files' = [files EXCEPT ![stats_path] =
                 append_rows_file(@, RUN_STATS_COLUMNS, <<stats>>)]
  /\ last' = Called("add_run_stats", stats_path, 0, 0, <<>>)
  /\ UNCHANGED <<sentLog, pc, loc, overlap, nAppended>>

get_run_stats ==
  /\ files' = [files EXCEPT ![stats_path] = ensure_csv(@, RUN_STATS_COLUMNS)]
  /\ last' = Called("get_run_stats", stats_path, 0, 0,
                    read_csv(files[stats_path], RUN_STATS_COLUMNS))
  /\ UNCHANGED <<sentLog, pc, loc, overlap, nAppended>>

StatsNext ==
  \/ \E rows \in Batches(StatsInputs) : append_rows(stats_path, rows)
  \/ \E stats \in StatsInputs : add_run_stats(stats)
  \/ get_run_stats
  \/ ensure_file(stats_path)

SpecStats == Init /\ [][StatsNext]_vars

---------------------------------------------------------------------------
(* The three files together *)

TotalRows == NumRows(files[sent_path]) + NumRows(files[jobs_path]) + NumRows(files[stats_path])

AllNext ==
  \/ /\ TotalRows < MaxTotalRows
     /\ \/ \E record \in SentInputs : add_sent_email(record)
        \/ \E r \in JobInputs : add_scraped_jobs(<<r>>)
        \/ \E stats \in StatsInputs : add_run_stats(stats)
  \/ add_scraped_jobs(<<>>)
  \/ get_sent_emails
  \/ get_run_stats
  \/ get_pending_jobs
  \/ next_row_number
  \/ \E today_str \in Today : get_today_sent_emails_count(today_str)
  \/ \E p \in Paths : ensure_file(p)

SpecAll == Init /\ [][AllNext]_vars

---------------------------------------------------------------------------
(* An append that raises a filesystem error.  The error can come from       *)
(* _ensure_csv before the file is created ("ensure"), from writing the     *)
(* header into the file open("w") has just created ("header"), from        *)
(* opening the file to count or to append ("open"), or from                *)
(* writer.writerow of the row after the first j rows ("writerow"): the     *)
(* with block closes the file, which keeps what was written.               *)

FailPoints == {"ensure", "header", "open", "writerow"}

append_rows_failed(f, cols, rows, point, j) ==
  CASE point = "ensure" -> f
    [] point = "header" -> [exists |-> TRUE, lines |-> <<>>]
    [] point = "open" -> ensure_csv(f, cols)
    [] point = "writerow" -> append_rows_file(f, cols, SubSeq(rows, 1, j))

FailedOp(point) == "_append_rows raised in " \o point

add_scraped_jobs_fails(records, point, j) ==
  /\ records # <<>>
  /\ point = "header" => ~files[jobs_path].exists
  /\ point = "writerow" => j < Len(records)
  /\ point # "writerow" => j = 0
  /\ NumRows(files[jobs_path]) + Len(records) <= MaxJobRows
  /\ LET f == files[jobs_path]
         numbered == number_records(records, get_next_row_number(f))
     IN /\ files' = [files EXCEPT ![jobs_path] =
                       append_rows_failed(f, SCRAPED_JOB_COLUMNS, numbered, point, j)]
        /\ last' = Called(FailedOp(point), jobs_path, j, 0, numbered)
  /\ UNCHANGED <<sentLog, pc, loc, overlap, nAppended>>

add_sent_email_fails(record, point) ==
  /\ NumRows(files[sent_path]) < MaxSentRows
  /\ point = "header" => ~files[sent_path].exists
  /\ files' = [files EXCEPT ![sent_path] =
                 append_rows_failed(@, SENT_EMAIL_COLUMNS, <<record>>, point, 0)]
  /\ last' = Called(FailedOp(point), sent_path, 0, 0, <<record>>)
  /\ UNCHANGED <<sentLog, pc, loc, overlap, nAppended>>

FailNext ==
  \/ \E r \in JobInputs : add_scraped_jobs(<<r>>)
  \/ \E records \in Batches(JobInputs), point \in FailPoints, j \in 0..(MaxBatch - 1) :
       add_scraped_jobs_fails(records, point, j)
  \/ \E record \in SentInputs, point \in FailPoints : add_sent_email_fails(record, point)

SpecFail == Init /\ [][FailNext]_vars

---------------------------------------------------------------------------
(* Two writers on the job file, their file accesses interleaved.  Each      *)
(* step is one open ... close of the file together with the code up to the *)
(* next one.                                                               *)

Writers == {1, 2}

ConcRecord(w) ==
  [title |-> Text(IF w = 1 THEN "a" ELSE "b"), email_sent |-> Text("Pending")]

ConcStatus == <<Text("Sent"), Text(""), Text("x@y")>>

Steps(w) ==
  /\ overlap' = (overlap \/ \E v \in Writers : v # w /\ pc[v] # "idle")
  /\ UNCHANGED <<last, sentLog>>

\* add_scraped_jobs, lines 89-91: _get_next_row_number, then the numbering
add_number(w) ==
  /\ pc[w] = "idle"
  /\ loc[w].ops < MaxOpsPerWriter
  /\ nAppended + Cardinality({v \in Writers : pc[v] \in {"add_numbered", "add_counted"}})
       < MaxConcRows
  /\ LET f == files[jobs_path]
     IN /\ files' = [files EXCEPT ![jobs_path] = ensure_csv(f, SCRAPED_JOB_COLUMNS)]
        /\ loc' = [loc EXCEPT ![w].ops = @ + 1,
                              ![w].rows = number_records(<<ConcRecord(w)>>,
                                                         get_next_row_number(f))]
  /\ pc' = [pc EXCEPT ![w] = "add_numbered"]
  /\ UNCHANGED nAppended
  /\ Steps(w)

\* _append_rows, lines 46-50: _ensure_csv and the line count
add_count(w) ==
  /\ pc[w] = "add_numbered"
  /\ files' = [files EXCEPT ![jobs_path] = ensure_csv(@, SCRAPED_JOB_COLUMNS)]
  /\ loc' = [loc EXCEPT ![w].start = append_rows_start(files[jobs_path], SCRAPED_JOB_COLUMNS)]
  /\ pc' = [pc EXCEPT ![w] = "add_counted"]
  /\ UNCHANGED nAppended
  /\ Steps(w)

\* _append_rows, lines 52-56: the append
add_write(w) ==
  /\ pc[w] = "add_counted"
  /\ files' = [files EXCEPT ![jobs_path].lines =
                 @ \o writerows(SCRAPED_JOB_COLUMNS, loc[w].rows)]
  /\ loc' = [loc EXCEPT ![w].rows = <<>>, ![w].start = 0]
  /\ nAppended' = nAppended + Len(loc[w].rows)
  /\ pc' = [pc EXCEPT ![w] = "idle"]
  /\ Steps(w)

\* update_scraped_job_status, lines 113-114: the read
update_read(w, row_number) ==
  /\ pc[w] = "idle"
  /\ loc[w].ops < MaxOpsPerWriter
  /\ files' = [files EXCEPT ![jobs_path] = ensure_csv(@, SCRAPED_JOB_COLUMNS)]
  /\ loc' = [loc EXCEPT ![w].ops = @ + 1,
                        ![w].rn = row_number,
                        ![w].rows = read_csv(files[jobs_path], SCRAPED_JOB_COLUMNS)]
  /\ pc' = [pc EXCEPT ![w] = "upd_read"]
  /\ UNCHANGED nAppended
  /\ Steps(w)

\* update_scraped_job_status, lines 117-137: the update in memory, the rewrite
update_write(w) ==
  /\ pc[w] = "upd_read"
  /\ LET rows == loc[w].rows
         data_index == loc[w].rn - 2
     IN files' = [files EXCEPT ![jobs_path] =
                    IF in_range(data_index, rows)
                      THEN rewrite_csv(SCRAPED_JOB_COLUMNS,
                                       set_status(rows, data_index, ConcStatus[1],
                                                  ConcStatus[2], ConcStatus[3]))
                      ELSE @]
  /\ loc' = [loc EXCEPT ![w].rows = <<>>, ![w].rn = 0]
  /\ pc' = [pc EXCEPT ![w] = "idle"]
  /\ UNCHANGED nAppended
  /\ Steps(w)

ConcNext ==
  \E w \in Writers :
    \/ add_number(w)
    \/ add_count(w)
    \/ add_write(w)
    \/ \E row_number \in 2..3 : update_read(w, row_number)
    \/ update_write(w)

SpecConc == Init /\ [][ConcNext]_vars

---------------------------------------------------------------------------
(* Properties of the job file, one caller *)

JobRows == DictReader(files[jobs_path].lines)

JobRowsNext == DictReader(files'[jobs_path].lines)

StatusFields == {"email_sent", "skip_reason", "email_recipient"}

ColumnSet(cols) == {cols[i] : i \in 1..Len(cols)}

\* what a record reads back as: schema columns only, a missing one empty
Stored(cols, rec) == [c \in ColumnSet(cols) |-> Get(rec, c)]

\* C1: the row_number stored in every job row is the row's 1-indexed position
\* in the file, the header being line 1 (the data row at zero-based index i
\* stores str(i + 2)).
C1_RowNumberIsPosition ==
  LET rows == JobRows
  IN \A i \in 1..Len(rows) : rows[i]["row_number"] = Text(Str((i - 1) + 2))

\* C1, second half: a stored row_number never changes once written.
C1_StoredNumberStable ==
  [][LET old == JobRows
         new == JobRowsNext
     IN \A i \in 1..Len(old) :
          /\ i <= Len(new)
          /\ new[i]["row_number"] = old[i]["row_number"]]_vars

\* C3: add_scraped_jobs with a non-empty batch returns start = (lines of the
\* job file before the call) + 1, numbers record i (from 0) str(start + i)
\* before writing, and appends the rows in batch order after the existing
\* rows; two records on an empty job file get "2" and "3" and the call
\* returns 2.
C3_AddNumbersBatch ==
  [][(last'.op = "add_scraped_jobs" /\ last'.recs # <<>>) =>
       LET lines_before ==
             IF files[jobs_path].exists THEN Len(files[jobs_path].lines) ELSE 1
           start == lines_before + 1
           recs == last'.recs
       IN /\ last'.ret = start
          /\ \A i \in 1..Len(recs) : recs[i]["row_number"] = Text(Str(start + (i - 1)))
          /\ JobRowsNext
               = JobRows \o [i \in 1..Len(recs) |-> Stored(SCRAPED_JOB_COLUMNS, recs[i])]
          /\ (JobRows = <<>> /\ Len(recs) = 2) =>
               /\ last'.ret = 2
               /\ recs[1]["row_number"] = Text("2")
               /\ recs[2]["row_number"] = Text("3")]_vars

C3_Witness ==
  /\ last.op = "add_scraped_jobs"
  /\ last.ret = 2
  /\ Len(last.recs) = 2
  /\ Len(JobRows) = 2
  /\ JobRows[1]["row_number"] = Text("2")
  /\ JobRows[2]["row_number"] = Text("3")

OnlyStatusOfRowChanged(old, new, row_number) ==
  (2 <= row_number /\ row_number <= Len(old) + 1) =>
    /\ Len(new) = Len(old)
    /\ \A i \in 1..Len(old) :
         /\ DOMAIN new[i] = DOMAIN old[i]
         /\ \A c \in DOMAIN old[i] :
              (i # row_number - 1 \/ c \notin StatusFields) => new[i][c] = old[i][c]

\* C4: update_scraped_job_status with 2 <= row_number <= (data rows) + 1
\* changes only email_sent, skip_reason and email_recipient of the data row at
\* zero-based index row_number - 2: every other field of that row, every other
\* row, the number of rows and their order stay.
C4_UpdateFrame ==
  [][last'.op = "update_scraped_job_status" =>
       \A old \in {JobRows} : \A new \in {JobRowsNext} :
         OnlyStatusOfRowChanged(old, new, last'.rn)]_vars

C4_Witness ==
  /\ last.op = "update_scraped_job_status"
  /\ last.rn = 2
  /\ Len(JobRows) = 2
  /\ JobRows[1]["email_recipient"] = Text("x@y")
  /\ JobRows[1]["title"] = <<"a", "b">>
  /\ JobRows[2]["email_recipient"] = Text("")
  /\ JobRows[2]["email_sent"] = Text("Pending")

OutOfRange(rn, rows) == rn - 2 < 0 \/ rn - 2 >= Len(rows)

\* C5 as claimed: an update whose index row_number - 2 is negative or >= the
\* number of data rows writes nothing: the job file is identical before and
\* after the call.
C5_OutOfRangeWritesNothing ==
  [][(last'.op = "update_scraped_job_status" /\ OutOfRange(last'.rn, JobRows)) =>
       files' = files]_vars

\* C5 amended: such an update leaves an existing job file identical, creates
\* an absent one with the header alone, and touches no other file.
C5_OutOfRangeOnlyEnsures ==
  [][(last'.op = "update_scraped_job_status" /\ OutOfRange(last'.rn, JobRows)) =>
       /\ files[jobs_path].exists => files' = files
       /\ ~files[jobs_path].exists =>
            files' = [files EXCEPT ![jobs_path] =
                        [exists |-> TRUE, lines |-> writeheader(SCRAPED_JOB_COLUMNS)]]]_vars

C5_Witness ==
  /\ last.op = "update_scraped_job_status"
  /\ Len(JobRows) = 2
  /\ OutOfRange(last.rn, JobRows)

\* the positions (1-based) of the rows whose email_sent is "Pending"
PendingAt(rows) == {i \in 1..Len(rows) : Get(rows[i], "email_sent") = Text("Pending")}

\* C6: get_pending_jobs returns, in file order, exactly the rows whose
\* email_sent is "Pending", each with row_number = (zero-based index) + 2
\* whatever was stored; and an update with int(p.row_number) of a returned p,
\* made right after, changes that row and no other, so that with email_sent
\* other than "Pending" the row is not in the next get_pending_jobs result.
C6_PendingAddressesUpdate ==
  [][/\ last'.op = "get_pending_jobs" =>
          LET P == last'.recs
              all == JobRowsNext
              Pos(k) == IntOf(P[k]["row_number"][1]) - 1
          IN /\ Len(P) = Cardinality(PendingAt(all))
             /\ \A k \in 1..Len(P) :
                  /\ IsInt(P[k]["row_number"][1])
                  /\ Pos(k) \in PendingAt(all)
                  /\ P[k] = SetKey(all[Pos(k)], "row_number",
                                   Text(Str((Pos(k) - 1) + 2)))
                  /\ k > 1 => Pos(k - 1) < Pos(k)
     /\ (/\ last'.op = "update_scraped_job_status"
         /\ last.op = "get_pending_jobs"
         /\ \E k \in 1..Len(last.recs) :
              last'.rn = IntOf(last.recs[k]["row_number"][1])) =>
          LET i == last'.rn - 1
              old == JobRows
              new == JobRowsNext
              again == pending_jobs(files'[jobs_path])
          IN /\ Len(new) = Len(old)
             /\ \A j \in 1..Len(old) : j # i => new[j] = old[j]
             /\ \A c \in DOMAIN old[i] :
                  c \notin StatusFields => new[i][c] = old[i][c]
             /\ new[i]["email_sent"] # Text("Pending") =>
                  \A k \in 1..Len(again) :
                    again[k]["row_number"] # Text(Str(last'.rn))]_vars

C6_Witness ==
  /\ last.op = "update_scraped_job_status"
  /\ last.prev.op = "get_pending_jobs"
  /\ \E k \in 1..Len(last.prev.recs) :
       last.rn = IntOf(last.prev.recs[k]["row_number"][1])
  /\ last.rn - 1 \in 1..Len(JobRows)
  /\ JobRows[last.rn - 1]["email_sent"] = Text("Sent")
  /\ JobRows[last.rn - 1]["row_number"] # Text(Str(last.rn))

---------------------------------------------------------------------------
(* Properties of _append_rows and of the other two files *)

StatsRows == DictReader(files[stats_path].lines)

\* no field of any row holds a line break
SingleLine(rows) ==
  \A i \in 1..Len(rows) : \A c \in DOMAIN rows[i] : Len(rows[i][c]) <= 1

\* C2 as claimed: _append_rows on a file that does not exist yet returns 1,
\* and after K rows have been appended to it the next call returns K + 1.
C2_AppendReturnsRowsPlusOne ==
  [][last'.op = "_append_rows" => last'.ret = Len(StatsRows) + 1]_vars

\* C2 amended: _append_rows returns (physical lines of the file before the
\* write, the header it may have to create being line 1) + 1: 2 on a file
\* that does not exist yet, and K + 2 after K appended rows none of which
\* holds a line break.
C2_AppendReturnsLinesPlusOne ==
  [][last'.op = "_append_rows" =>
       LET f == files[stats_path]
           lines_before == IF f.exists THEN Len(f.lines) ELSE 1
       IN /\ last'.ret = lines_before + 1
          /\ ~f.exists => last'.ret = 2
          /\ SingleLine(StatsRows) => last'.ret = Len(StatsRows) + 2]_vars

C2_Witness ==
  /\ last.op = "_append_rows"
  /\ last.ret = 4
  /\ Len(StatsRows) = 3
  /\ SingleLine(StatsRows)

SentRows == DictReader(files[sent_path].lines)

\* C7: after N add_sent_email calls on a sent-email file that did not exist,
\* get_sent_emails returns exactly N records in the order they were appended,
\* each with the appended record's value for every schema column (a missing
\* column reads back empty, keys outside the schema are gone).
C7_SentRoundTrip ==
  last.op = "get_sent_emails" =>
    /\ Len(last.recs) = Len(sentLog)
    /\ \A i \in 1..Len(sentLog) :
         /\ DOMAIN last.recs[i] = ColumnSet(SENT_EMAIL_COLUMNS)
         /\ \A c \in ColumnSet(SENT_EMAIL_COLUMNS) :
              last.recs[i][c] = (IF c \in DOMAIN sentLog[i] THEN sentLog[i][c] ELSE Text(""))

C7_Witness ==
  /\ last.op = "get_sent_emails"
  /\ Len(sentLog) = 3
  /\ Len(last.recs) = 3
  /\ last.recs[1]["email"] = <<"a", "b">>
  /\ "note" \in DOMAIN sentLog[1]
  /\ "email" \notin DOMAIN sentLog[2]
  /\ last.recs[2]["email"] = Text("")
  /\ last.recs[3]["date_sent"] = Text("2024-01-02T09:00:00")

ReadOps ==
  {"ensure_csv", "get_sent_emails", "get_run_stats", "get_pending_jobs",
   "_get_next_row_number", "get_today_sent_emails_count"}

IsRead(call) ==
  \/ call.op \in ReadOps
  \/ call.op = "add_scraped_jobs" /\ call.recs = <<>>

\* C9: on a file that already exists, _ensure_csv and every read operation
\* (add_scraped_jobs with an empty batch included) leave the contents of all
\* three files as they were, called any number of times in any order.
C9_ReadsChangeNothing ==
  [][(IsRead(last') /\ files[last'.path].exists) => files' = files]_vars

C9_Witness ==
  /\ IsRead(last)
  /\ last.op = "add_scraped_jobs"
  /\ last.prev.op = "get_pending_jobs"
  /\ Len(JobRows) = 1
  /\ Len(SentRows) = 1
  /\ files[stats_path].exists

---------------------------------------------------------------------------
(* Properties of a failing append and of two writers *)

IsPrefix(a, b) == Len(a) <= Len(b) /\ SubSeq(b, 1, Len(a)) = a

Failed(call) == \E point \in FailPoints : call.op = FailedOp(point)

RowsOf(f) == DictReader(f.lines)

HeaderIntact(f, cols) ==
  f.exists => IsPrefix(writeheader(cols), f.lines)

DuplicateRowNumber ==
  \E i, j \in 1..Len(JobRows) :
    i < j /\ JobRows[i]["row_number"] = JobRows[j]["row_number"]

\* fewer rows in the file than were appended to it
LostRow == Len(JobRows) < nAppended

\* C10: two writers whose file steps interleave can corrupt the job file: two
\* rows can come to carry the same stored row_number, and a row one writer
\* appended can be missing after the other's read-modify-rewrite.  Neither
\* happens as long as no writer has taken a step while the other was inside
\* an operation.
C10_CorruptionNeedsInterleaving ==
  (DuplicateRowNumber \/ LostRow) => overlap

C10_Witness ==
  /\ DuplicateRowNumber
  /\ LostRow
  /\ \A w \in Writers : pc[w] = "idle"

====
